---- MODULE Spec2Model ----
(***************************************************************************)
(* Library REST service (src/main.py): users, books and checkouts kept in  *)
(* a relational store, with the request handlers that read and change      *)
(* them.  Each handler opens one session, and everything it writes is      *)
(* committed by its single session.commit() or not at all.                 *)
(***************************************************************************)
EXTENDS Integers, Sequences, FiniteSets, TLC

VARIABLES
    users,      \* table users: user_id -> row
    books,      \* table books: isbn -> row
    checkouts,  \* table checkouts: checkout_id (1..n, autoincrement) -> row
    now,        \* the wall clock read by datetime.now() / date.today()
    resp,       \* the request just served and the response it got
    sess        \* per worker: the session of a checkout request in progress

vars == <<users, books, checkouts, now, resp, sess>>

----------------------------------------------------------------------------
(* Bounds of the model *)

\* user_id values run from BASE_USER_ID to BASE_USER_ID + MaxUserIdSpan
MaxUserIdSpan == 1
\* rows the table checkouts can hold
MaxCheckouts == 2
\* resolution of the clock below one second (datetime has microseconds)
TicksPerSecond == 2

----------------------------------------------------------------------------
(* Time: a timestamp is a number of ticks since midnight of day 0 *)

LOAN_DAYS == 30
FEE_CENTS_PER_DAY == 50
BASE_USER_ID == 100000

SecondsPerDay == 24 * 3600
EndOfDaySecond == 23 * 3600 + 59 * 60 + 59
TicksPerDay == SecondsPerDay * TicksPerSecond

Instant(day, second, tick) == (day * SecondsPerDay + second) * TicksPerSecond + tick

DayOf(t) == t \div TicksPerDay
SubSecondOf(t) == t % TicksPerSecond

\* datetime.replace(hour=23, minute=59, second=59): the microseconds stay
ReplaceEndOfDay(t) == Instant(DayOf(t), EndOfDaySecond, SubSecondOf(t))

\* timedelta.days of (later - earlier), for later >= earlier
TimedeltaDays(later, earlier) == (later - earlier) \div TicksPerDay

\* (mutant) the loan period is added without the move to the end of the day
DueDateNotNormalized(t) == t + LOAN_DAYS * TicksPerDay

\* due_date computed by checkout_book from datetime.now()
DueDate(t) == ReplaceEndOfDay(t) + LOAN_DAYS * TicksPerDay

\* Column return_date is nullable: NULL until the book is returned
NULL == -1

\* Optional[...] request and column values: <<>> is None, <<v>> is v
None == <<>>
Some(v) == <<v>>

\* The instants the clock takes in the model: the start, the due time of a
\* checkout made at the start, and one day and one tick after that
StartInstant == Instant(0, 10 * 3600, 0)
ClockInstants ==
    {StartInstant, DueDate(StartInstant), DueDate(StartInstant) + TicksPerDay + 1}

----------------------------------------------------------------------------
(* Request inputs *)

UserIds == BASE_USER_ID..(BASE_USER_ID + MaxUserIdSpan)
Isbns == {111, 222}
Emails == {"ada@x.com", "bob@x.com"}

NoBody == [none |-> TRUE]

Response(op, status, detail, userId, isbn, body) ==
    [op |-> op, status |-> status, detail |-> detail,
     userId |-> userId, isbn |-> isbn, body |-> body]

\* No response is on its way to a client
NoResponse == Response("none", 0, "", 0, 0, NoBody)

----------------------------------------------------------------------------
(* Queries *)

CheckoutIds == DOMAIN checkouts

\* (mutant) the filter on return_date is left out
ActiveCheckoutIdsAnyDate(isbn, user_id) ==
    {c \in CheckoutIds : checkouts[c].isbn = isbn /\ checkouts[c].user_id = user_id}

\* Checkout rows of (isbn, user_id) with return_date IS NULL
ActiveCheckoutIds(isbn, user_id) ==
    {c \in CheckoutIds : /\ checkouts[c].isbn = isbn
                         /\ checkouts[c].user_id = user_id
                         /\ checkouts[c].return_date = NULL}

OpenCheckoutsOfUser(user_id) ==
    {c \in CheckoutIds : checkouts[c].user_id = user_id /\ checkouts[c].return_date = NULL}

OpenCheckoutsOfBook(isbn) ==
    {c \in CheckoutIds : checkouts[c].isbn = isbn /\ checkouts[c].return_date = NULL}

Max(S) == CHOOSE x \in S : \A y \in S : y <= x

----------------------------------------------------------------------------
(* Tables *)

EmptyTable == [k \in {} |-> NoBody]

\* INSERT or UPDATE of the row with primary key k
Put(table, k, row) ==
    [x \in DOMAIN table \cup {k} |-> IF x = k THEN row ELSE table[x]]

\* DELETE of the row with primary key k
Remove(table, k) == [x \in DOMAIN table \ {k} |-> table[x]]

\* Constraint unique=True of users.email, checked by the store at commit
EmailUnique(us) ==
    \A u1, u2 \in DOMAIN us : us[u1].email = us[u2].email => u1 = u2

\* ForeignKey("users.user_id") / ForeignKey("books.isbn") of checkouts:
\* rows of checkouts that reference the user / the book
CheckoutsOfUser(user_id) == {c \in CheckoutIds : checkouts[c].user_id = user_id}

\* (mutant) checkouts.isbn is not a foreign key: no row counts as a reference
CheckoutsOfBookUnreferenced(isbn) == {}

CheckoutsOfBook(isbn) == {c \in CheckoutIds : checkouts[c].isbn = isbn}

Workers == {1, 2}
Idle == [pc |-> "idle"]

\* A request that ends in an HTTPException or an uncaught exception: the
\* session is closed without commit, nothing it wrote is kept
Reject(op, status, detail, userId, isbn) ==
    /\ resp' = Response(op, status, detail, userId, isbn, NoBody)
    /\ UNCHANGED <<users, books, checkouts>>

----------------------------------------------------------------------------
Init ==
    /\ users = EmptyTable
    /\ books = EmptyTable
    /\ checkouts = <<>>
    /\ now = StartInstant
    /\ resp = NoResponse
    /\ sess = [w \in Workers |-> Idle]

\* Time passes
Tick ==
    /\ \E t \in ClockInstants : t > now /\ now' = t
    /\ UNCHANGED <<users, books, checkouts, resp, sess>>

\* The response of the request just served reaches its client
Deliver ==
    /\ resp # NoResponse
    /\ resp' = NoResponse
    /\ UNCHANGED <<users, books, checkouts, now, sess>>

\* Requests are served one at a time: the next one starts when the response
\* of the one before has been sent
Ready == resp = NoResponse

----------------------------------------------------------------------------
(* POST /users, POST /books *)

\* (mutant) the largest user_id is taken as it is
NextUserIdNotAdvanced ==
    IF DOMAIN users = {} THEN BASE_USER_ID ELSE Max(DOMAIN users)

\* next_id of create_user: largest user_id + 1, or the base when there is none
NextUserId ==
    IF DOMAIN users = {} THEN BASE_USER_ID ELSE Max(DOMAIN users) + 1

CreateUser(user) ==
    /\ UNCHANGED <<books, checkouts, now, sess>>
    /\ IF \E u \in DOMAIN users : users[u].email = user.email
       THEN /\ resp' = Response("create_user", 400, "Email already registered", 0, 0, user)
            /\ UNCHANGED users
       ELSE /\ NextUserId \in UserIds
            /\ users' = Put(users, NextUserId,
                            [name |-> user.name, email |-> user.email,
                             member_since |-> DayOf(now), fine_balance |-> 0,
                             address |-> user.address,
                             phone_number |-> user.phoneNumber])
            /\ resp' = Response("create_user", 200, "User created", NextUserId, 0, user)

CreateBook(book) ==
    /\ UNCHANGED <<users, checkouts, now, sess>>
    /\ IF book.isbn \in DOMAIN books
       THEN /\ resp' = Response("create_book", 400, "Book with this ISBN already exists",
                                0, book.isbn, book)
            /\ UNCHANGED books
       ELSE /\ books' = Put(books, book.isbn,
                            [title |-> book.title, author |-> book.author,
                             publisher |-> book.publisher, year |-> book.year,
                             pages |-> book.pages, genre |-> book.genre,
                             location |-> book.location, is_available |-> TRUE])
            /\ resp' = Response("create_book", 200, "Book added to library",
                                0, book.isbn, book)

----------------------------------------------------------------------------
(* POST /checkout *)

\* The row checkout_book adds: checkout_date defaults to datetime.now(),
\* return_date to NULL
NewCheckout(userId, isbn, t) ==
    [user_id |-> userId, isbn |-> isbn, checkout_date |-> t,
     due_date |-> DueDate(t), return_date |-> NULL]

\* (mutant) the flag is not cleared
MarkUnavailableSkipped(bs, isbn) == bs

\* book.is_available = False
MarkUnavailable(bs, isbn) == [bs EXCEPT ![isbn].is_available = FALSE]

\* (mutant) the availability check is left out
NotAvailableNever(book) == FALSE

\* "if not book.is_available": the book read by the request is checked out
NotAvailable(book) == ~book.is_available

CheckoutBook(userId, isbn) ==
    /\ UNCHANGED <<now, sess>>
    /\ IF userId \notin DOMAIN users
       THEN Reject("checkout", 404, "User not found", userId, isbn)
       ELSE IF isbn \notin DOMAIN books
       THEN Reject("checkout", 404, "Book not found", userId, isbn)
       ELSE IF NotAvailable(books[isbn])
       THEN Reject("checkout", 400, "Book is not available", userId, isbn)
       ELSE /\ Len(checkouts) < MaxCheckouts
            /\ checkouts' = Append(checkouts, NewCheckout(userId, isbn, now))
            /\ books' = MarkUnavailable(books, isbn)
            /\ UNCHANGED users
            /\ resp' = Response("checkout", 200, "Book checked out", userId, isbn,
                                [dueDate |-> DueDate(now)])

----------------------------------------------------------------------------
(* POST /return/{isbn}?user_id= *)

\* Numeric(10, 2) columns load as decimal.Decimal; days_late * 0.50 is a float
Decimal(cents) == [type |-> "Decimal", cents |-> cents]
Float(cents) == [type |-> "float", cents |-> cents]
TypeError == [type |-> "TypeError", cents |-> 0]

\* Python's a + b for a Decimal or float a and b: Decimal and float do not mix
Add(a, b) ==
    IF a.type = b.type THEN [type |-> a.type, cents |-> a.cents + b.cents]
    ELSE TypeError

\* "if checkout.return_date > checkout.due_date"
IsLate(return_date, due_date) == return_date > due_date

\* late_fee = days_late * 0.50
LateFee(return_date, due_date) ==
    Float(TimedeltaDays(return_date, due_date) * FEE_CENTS_PER_DAY)

\* (mutant) the return date is written to every row of the pair
MarkReturnedEveryRow(cs, c, t) ==
    [k \in DOMAIN cs |->
        IF cs[k].isbn = cs[c].isbn /\ cs[k].user_id = cs[c].user_id
        THEN [cs[k] EXCEPT !.return_date = t] ELSE cs[k]]

\* checkout.return_date = datetime.now()
MarkReturned(cs, c, t) == [cs EXCEPT ![c].return_date = t]

\* (mutant) the flag is not set back
MarkAvailableSkipped(bs, isbn) == bs

\* book.is_available = True
MarkAvailable(bs, isbn) == [bs EXCEPT ![isbn].is_available = TRUE]

\* (mutant) what the handler wrote before the exception is kept
RolledBackKept(before, written) == written

\* "with Session(engine) as session" left by an exception: the session is
\* closed without commit and the table is as it was before the request
RolledBack(before, written) == before

ReturnBook(isbn, user_id) ==
    /\ UNCHANGED <<now, sess>>
    /\ IF ActiveCheckoutIds(isbn, user_id) = {}
       THEN Reject("return", 404, "No active checkout found for this book and user",
                   user_id, isbn)
       ELSE \E c \in ActiveCheckoutIds(isbn, user_id) :
            IF isbn \notin DOMAIN books
            THEN Reject("return", 500, "AttributeError", user_id, isbn)
            ELSE IF IsLate(now, checkouts[c].due_date) /\ user_id \notin DOMAIN users
            THEN Reject("return", 500, "AttributeError", user_id, isbn)
            ELSE IF IsLate(now, checkouts[c].due_date)
            THEN LET late_fee == LateFee(now, checkouts[c].due_date)
                     balance == Add(Decimal(users[user_id].fine_balance), late_fee)
                 IN IF balance.type # "Decimal"
                    THEN /\ checkouts' = RolledBack(checkouts, MarkReturned(checkouts, c, now))
                         /\ books' = RolledBack(books, MarkAvailable(books, isbn))
                         /\ UNCHANGED users
                         /\ resp' = Response("return", 500, "TypeError", user_id, isbn, NoBody)
                    ELSE /\ checkouts' = MarkReturned(checkouts, c, now)
                         /\ books' = MarkAvailable(books, isbn)
                         /\ users' = [users EXCEPT ![user_id].fine_balance = balance.cents]
                         /\ resp' = Response("return", 200, "Book returned. Late fee applied.",
                                             user_id, isbn, [late_fee |-> late_fee.cents])
            ELSE /\ checkouts' = MarkReturned(checkouts, c, now)
                 /\ books' = MarkAvailable(books, isbn)
                 /\ UNCHANGED users
                 /\ resp' = Response("return", 200, "Book returned successfully",
                                     user_id, isbn, NoBody)

----------------------------------------------------------------------------
(* PUT /users/{user_id}, PUT /books/{isbn} *)

\* (mutant) the replacement writes the fine balance too
ReplacedUserAndBalance(row, user) ==
    [row EXCEPT !.name = user.name, !.email = user.email,
                !.address = user.address, !.phone_number = user.phoneNumber,
                !.fine_balance = 0 - FEE_CENTS_PER_DAY]

\* "Update all fields" of update_user
ReplacedUser(row, user) ==
    [row EXCEPT !.name = user.name, !.email = user.email,
                !.address = user.address, !.phone_number = user.phoneNumber]

\* "Update all fields" of update_book
ReplacedBook(row, book) ==
    [row EXCEPT !.title = book.title, !.author = book.author,
                !.publisher = book.publisher, !.year = book.year,
                !.pages = book.pages, !.genre = book.genre,
                !.location = book.location]

UpdateUser(user_id, user) ==
    /\ UNCHANGED <<books, checkouts, now, sess>>
    /\ IF user_id \notin DOMAIN users
       THEN /\ resp' = Response("update_user", 404, "User not found", user_id, 0, user)
            /\ UNCHANGED users
       ELSE IF /\ user.email # users[user_id].email
               /\ \E u \in DOMAIN users : users[u].email = user.email
       THEN /\ resp' = Response("update_user", 400, "Email already registered",
                                user_id, 0, user)
            /\ UNCHANGED users
       ELSE LET updated == Put(users, user_id, ReplacedUser(users[user_id], user))
            IN IF ~EmailUnique(updated)
               THEN /\ resp' = Response("update_user", 500, "IntegrityError",
                                        user_id, 0, user)
                    /\ UNCHANGED users
               ELSE /\ users' = updated
                    /\ resp' = Response("update_user", 200, "User updated", user_id, 0, user)

\* UPDATE books SET isbn = new WHERE isbn = old: the primary key moves, and
\* the store refuses it while a checkouts row references the old key
UpdateBook(isbn, book) ==
    /\ UNCHANGED <<users, checkouts, now, sess>>
    /\ IF isbn \notin DOMAIN books
       THEN /\ resp' = Response("update_book", 404, "Book not found", 0, isbn, book)
            /\ UNCHANGED books
       ELSE IF book.isbn # isbn /\ book.isbn \in DOMAIN books
       THEN /\ resp' = Response("update_book", 400, "Book with this ISBN already exists",
                                0, isbn, book)
            /\ UNCHANGED books
       ELSE IF book.isbn # isbn /\ CheckoutsOfBook(isbn) # {}
       THEN /\ resp' = Response("update_book", 500, "IntegrityError", 0, isbn, book)
            /\ UNCHANGED books
       ELSE /\ books' = Put(Remove(books, isbn), book.isbn, ReplacedBook(books[isbn], book))
            /\ resp' = Response("update_book", 200, "Book updated", 0, isbn, book)

----------------------------------------------------------------------------
(* PATCH /users/{user_id}, PATCH /books/{isbn} *)

\* "if update.f is not None: existing.f = update.f", for a NOT NULL column
Patched(old, new) == IF new # None THEN new[1] ELSE old

\* (mutant) the field is assigned whether or not the request has it
PatchedOptionalAlways(old, new) == new

\* the same for a nullable column, whose values are None or Some(v)
PatchedOptional(old, new) == IF new # None THEN new ELSE old

\* Python truth of an Optional[str]: neither None nor ""
Truthy(v) == v # None /\ v[1] # ""

PatchedUser(row, user_update) ==
    [row EXCEPT !.name = Patched(row.name, user_update.name),
                !.email = Patched(row.email, user_update.email),
                !.address = PatchedOptional(row.address, user_update.address),
                !.phone_number = PatchedOptional(row.phone_number, user_update.phoneNumber)]

PatchedBook(row, book_update) ==
    [row EXCEPT !.title = Patched(row.title, book_update.title),
                !.author = Patched(row.author, book_update.author),
                !.publisher = PatchedOptional(row.publisher, book_update.publisher),
                !.year = PatchedOptional(row.year, book_update.year),
                !.pages = PatchedOptional(row.pages, book_update.pages),
                !.genre = PatchedOptional(row.genre, book_update.genre),
                !.location = PatchedOptional(row.location, book_update.location)]

PatchUser(user_id, user_update) ==
    /\ UNCHANGED <<books, checkouts, now, sess>>
    /\ IF user_id \notin DOMAIN users
       THEN /\ resp' = Response("patch_user", 404, "User not found", user_id, 0, user_update)
            /\ UNCHANGED users
       ELSE IF /\ Truthy(user_update.email)
               /\ user_update.email[1] # users[user_id].email
               /\ \E u \in DOMAIN users : users[u].email = user_update.email[1]
       THEN /\ resp' = Response("patch_user", 400, "Email already registered",
                                user_id, 0, user_update)
            /\ UNCHANGED users
       ELSE LET updated == Put(users, user_id, PatchedUser(users[user_id], user_update))
            IN IF ~EmailUnique(updated)
               THEN /\ resp' = Response("patch_user", 500, "IntegrityError",
                                        user_id, 0, user_update)
                    /\ UNCHANGED users
               ELSE /\ users' = updated
                    /\ resp' = Response("patch_user", 200, "User updated",
                                        user_id, 0, user_update)

PatchBook(isbn, book_update) ==
    /\ UNCHANGED <<users, checkouts, now, sess>>
    /\ IF isbn \notin DOMAIN books
       THEN /\ resp' = Response("patch_book", 404, "Book not found", 0, isbn, book_update)
            /\ UNCHANGED books
       ELSE /\ books' = Put(books, isbn, PatchedBook(books[isbn], book_update))
            /\ resp' = Response("patch_book", 200, "Book updated", 0, isbn, book_update)

----------------------------------------------------------------------------
(* DELETE /users/{user_id}, DELETE /books/{isbn} *)

\* (mutant) the count of active checkouts is not looked at
HasActiveCheckoutsNever(user_id) == FALSE

\* active_checkouts > 0
HasActiveCheckouts(user_id) == Cardinality(OpenCheckoutsOfUser(user_id)) > 0

\* session.delete() of a parent whose relationship "checkouts" has no delete
\* cascade: the flush sets the foreign key of each child row to NULL, which
\* the NOT NULL column refuses (and the foreign key refuses the bare DELETE)
DeleteRefused(children) == children # {}

DeleteUser(user_id) ==
    /\ UNCHANGED <<books, checkouts, now, sess>>
    /\ IF user_id \notin DOMAIN users
       THEN Reject("delete_user", 404, "User not found", user_id, 0)
       ELSE IF HasActiveCheckouts(user_id)
       THEN Reject("delete_user", 400, "Cannot delete user with active book checkouts",
                   user_id, 0)
       ELSE IF DeleteRefused(CheckoutsOfUser(user_id))
       THEN Reject("delete_user", 500, "IntegrityError", user_id, 0)
       ELSE /\ users' = Remove(users, user_id)
            /\ resp' = Response("delete_user", 200, "User deleted", user_id, 0, NoBody)

DeleteBook(isbn) ==
    /\ UNCHANGED <<users, checkouts, now, sess>>
    /\ IF isbn \notin DOMAIN books
       THEN Reject("delete_book", 404, "Book not found", 0, isbn)
       ELSE IF NotAvailable(books[isbn])
       THEN Reject("delete_book", 400, "Cannot delete book that is currently checked out",
                   0, isbn)
       ELSE IF DeleteRefused(CheckoutsOfBook(isbn))
       THEN Reject("delete_book", 500, "IntegrityError", 0, isbn)
       ELSE /\ books' = Remove(books, isbn)
            /\ resp' = Response("delete_book", 200, "Book deleted", 0, isbn, NoBody)

----------------------------------------------------------------------------
(* GET handlers: they read and change nothing *)

\* (mutant) the filter on return_date is left out
CheckedOutBooksAnyDate(user_id) ==
    {checkouts[c].isbn : c \in CheckoutsOfUser(user_id)}

\* checkedOutBooks of get_user
CheckedOutBooks(user_id) ==
    {checkouts[c].isbn : c \in OpenCheckoutsOfUser(user_id)}

\* GET /users
get_all_users ==
    {[userId |-> u, name |-> users[u].name, email |-> users[u].email] : u \in DOMAIN users}

\* GET /books
get_all_books ==
    {[isbn |-> b, title |-> books[b].title, author |-> books[b].author,
      available |-> books[b].is_available] : b \in DOMAIN books}

----------------------------------------------------------------------------
(* Requests served one at a time *)

\* Request bodies of the main specification
UserInsCore ==
    {[name |-> "Ada", email |-> e, address |-> None, phoneNumber |-> None] : e \in Emails}

BookInsCore ==
    {[isbn |-> i, title |-> "Emma", author |-> "Austen", publisher |-> None,
      year |-> None, pages |-> None, genre |-> None, location |-> None] : i \in Isbns}

UserUpdatesCore ==
    {[name |-> Some("Ada"), email |-> e, address |-> None, phoneNumber |-> None] :
        e \in {None} \cup {Some(x) : x \in Emails}}

BookUpdatesCore ==
    {[title |-> Some("Emma"), author |-> None, publisher |-> None, year |-> None,
      pages |-> None, genre |-> None, location |-> None]}

Next ==
    \/ Ready /\ \E user \in UserInsCore : CreateUser(user)
    \/ Ready /\ \E book \in BookInsCore : CreateBook(book)
    \/ Ready /\ \E u \in UserIds, i \in Isbns : CheckoutBook(u, i)
    \/ Ready /\ \E u \in UserIds, i \in Isbns : ReturnBook(i, u)
    \/ Ready /\ \E u \in UserIds, user \in UserInsCore : UpdateUser(u, user)
    \/ Ready /\ \E i \in Isbns, book \in BookInsCore : UpdateBook(i, book)
    \/ Ready /\ \E u \in UserIds, user_update \in UserUpdatesCore : PatchUser(u, user_update)
    \/ Ready /\ \E i \in Isbns, book_update \in BookUpdatesCore : PatchBook(i, book_update)
    \/ Ready /\ \E u \in UserIds : DeleteUser(u)
    \/ Ready /\ \E i \in Isbns : DeleteBook(i)
    \/ Ready /\ Tick
    \/ Deliver

Spec == Init /\ [][Next]_vars

----------------------------------------------------------------------------
(* Properties of the requests served one at a time *)

\* The step serves a request of handler op
Served(op) == Ready /\ resp'.op = op

C3_UnavailableCheckoutRejected ==
    [][(/\ Served("checkout")
        /\ resp'.userId \in DOMAIN users
        /\ resp'.isbn \in DOMAIN books
        /\ ~books[resp'.isbn].is_available)
       => (/\ resp'.status = 400
           /\ resp'.detail = "Book is not available"
           /\ UNCHANGED <<users, books, checkouts>>)]_vars

C3_Witness ==
    /\ resp.op = "checkout" /\ resp.status = 400
    /\ resp.userId \in DOMAIN users
    /\ resp.isbn \in DOMAIN books /\ ~books[resp.isbn].is_available
    /\ OpenCheckoutsOfBook(resp.isbn) # {}

\* C4: a return for an (isbn, user_id) pair without a checkout row whose
\* return_date is NULL is answered 404 and changes no row
C4_ReturnWithoutOpenCheckout ==
    [][(/\ Served("return")
        /\ ~\E c \in DOMAIN checkouts : /\ checkouts[c].isbn = resp'.isbn
                                        /\ checkouts[c].user_id = resp'.userId
                                        /\ checkouts[c].return_date = NULL)
       => (/\ resp'.status = 404
           /\ UNCHANGED <<users, books, checkouts>>)]_vars

\* The rejected return is for a pair that has a closed checkout row
C4_Witness ==
    /\ resp.op = "return" /\ resp.status = 404
    /\ \E c \in CheckoutIds : /\ checkouts[c].isbn = resp.isbn
                              /\ checkouts[c].user_id = resp.userId
                              /\ checkouts[c].return_date # NULL

\* C7: a successful checkout adds exactly one row, for the given user and
\* ISBN and with a NULL return_date, and sets that book's is_available to
\* FALSE in the same step; no user, no other book and no other row changes,
\* and no step adds a row without clearing the flag or clears a flag without
\* adding the row
C7_CheckoutFrame ==
    [][/\ (Served("checkout") /\ resp'.status = 200)
          => /\ Len(checkouts') = Len(checkouts) + 1
             /\ SubSeq(checkouts', 1, Len(checkouts)) = checkouts
             /\ checkouts'[Len(checkouts')].user_id = resp'.userId
             /\ checkouts'[Len(checkouts')].isbn = resp'.isbn
             /\ checkouts'[Len(checkouts')].return_date = NULL
             /\ books' = [books EXCEPT ![resp'.isbn].is_available = FALSE]
             /\ books[resp'.isbn].is_available
             /\ users' = users
       /\ (Len(checkouts') # Len(checkouts))
          => /\ Len(checkouts') = Len(checkouts) + 1
             /\ checkouts'[Len(checkouts')].isbn \in DOMAIN books'
             /\ ~books'[checkouts'[Len(checkouts')].isbn].is_available
       /\ \A i \in DOMAIN books \cap DOMAIN books' :
             (books[i].is_available /\ ~books'[i].is_available)
             => /\ Len(checkouts') = Len(checkouts) + 1
                /\ checkouts'[Len(checkouts')].isbn = i]_vars

\* The second checkout succeeded while the first row and the other book stay
C7_Witness ==
    /\ resp.op = "checkout" /\ resp.status = 200
    /\ Len(checkouts) = 2
    /\ checkouts[1].isbn # resp.isbn
    /\ ~books[resp.isbn].is_available

\* C8: DELETE of a user with an open checkout, or of a book with an open
\* checkout (an unavailable book), is answered 400, changes no row and
\* leaves the user or book in place
C8_DeleteBlockedWhileCheckedOut ==
    [][/\ (Served("delete_user") /\ OpenCheckoutsOfUser(resp'.userId) # {})
          => /\ resp'.status = 400
             /\ UNCHANGED <<users, books, checkouts>>
             /\ resp'.userId \in DOMAIN users'
       /\ (/\ Served("delete_book")
           /\ \/ OpenCheckoutsOfBook(resp'.isbn) # {}
              \/ resp'.isbn \in DOMAIN books /\ ~books[resp'.isbn].is_available)
          => /\ resp'.status = 400
             /\ UNCHANGED <<users, books, checkouts>>
             /\ resp'.isbn \in DOMAIN books']_vars

C8_Witness ==
    /\ resp.op = "delete_user" /\ resp.status = 400
    /\ resp.userId \in DOMAIN users
    /\ OpenCheckoutsOfUser(resp.userId) # {}

\* C5: a return of an open checkout adds 0.50 per whole elapsed day to the
\* user's fine balance exactly when the return time is after the due time,
\* and leaves the balance alone otherwise
C5_LateFeeAdded ==
    [][\A c \in CheckoutIds :
          (/\ Served("return")
           /\ c \in ActiveCheckoutIds(resp'.isbn, resp'.userId)
           /\ resp'.userId \in DOMAIN users)
          => /\ resp'.userId \in DOMAIN users'
             /\ users'[resp'.userId].fine_balance =
                    IF now > checkouts[c].due_date
                    THEN users[resp'.userId].fine_balance
                         + FEE_CENTS_PER_DAY * TimedeltaDays(now, checkouts[c].due_date)
                    ELSE users[resp'.userId].fine_balance
             /\ (resp'.detail = "Book returned. Late fee applied.")
                    <=> (now > checkouts[c].due_date)]_vars

\* C6: a return of an open checkout, on time or late, makes the book
\* available and closes the checkout, so that the same return made again
\* finds no active checkout
C6_ReturnMakesAvailable ==
    [][(/\ Served("return")
        /\ ActiveCheckoutIds(resp'.isbn, resp'.userId) # {}
        /\ resp'.isbn \in DOMAIN books)
       => /\ resp'.status = 200
          /\ books'[resp'.isbn].is_available
          /\ \A c \in DOMAIN checkouts' :
                (checkouts'[c].isbn = resp'.isbn /\ checkouts'[c].user_id = resp'.userId)
                => checkouts'[c].return_date # NULL]_vars

\* C9: DELETE of an existing user without open checkouts, or of an existing
\* available book, is answered 200 and removes the row, also when closed
\* checkout rows reference it
C9_DeleteWithoutOpenCheckout ==
    [][/\ (/\ Served("delete_user")
           /\ resp'.userId \in DOMAIN users
           /\ OpenCheckoutsOfUser(resp'.userId) = {})
          => /\ resp'.status = 200
             /\ resp'.userId \notin DOMAIN users'
       /\ (/\ Served("delete_book")
           /\ resp'.isbn \in DOMAIN books
           /\ books[resp'.isbn].is_available)
          => /\ resp'.status = 200
             /\ resp'.isbn \notin DOMAIN books']_vars

----------------------------------------------------------------------------
(* One user and one book with every field of the request bodies varying *)

UserIns ==
    {[name |-> "Ada", email |-> "ada@x.com", address |-> None, phoneNumber |-> None],
     [name |-> "Bob", email |-> "bob@x.com", address |-> Some("1 Main St"),
      phoneNumber |-> Some("5550001")]}

UserUpdates ==
    [name : {None, Some("Bob")}, email : {None, Some("bob@x.com")},
     address : {None, Some("1 Main St")}, phoneNumber : {None, Some("5550001")}]

BookIns ==
    {[isbn |-> i, title |-> "Emma", author |-> "Austen", publisher |-> None,
      year |-> None, pages |-> None, genre |-> None, location |-> None] : i \in Isbns}
    \cup
    {[isbn |-> i, title |-> "Persuasion", author |-> "Jane Austen",
      publisher |-> Some("Penguin"), year |-> Some(1817), pages |-> Some(250),
      genre |-> Some("Fiction"), location |-> Some("A-12")] : i \in Isbns}

NoBookUpdate ==
    [title |-> None, author |-> None, publisher |-> None, year |-> None,
     pages |-> None, genre |-> None, location |-> None]

BookUpdates ==
    {NoBookUpdate,
     [NoBookUpdate EXCEPT !.title = Some("Persuasion")],
     [NoBookUpdate EXCEPT !.author = Some("Jane Austen")],
     [NoBookUpdate EXCEPT !.publisher = Some("Penguin")],
     [NoBookUpdate EXCEPT !.year = Some(1817)],
     [NoBookUpdate EXCEPT !.pages = Some(250), !.genre = Some("Fiction"),
                          !.location = Some("A-12")],
     [title |-> Some("Persuasion"), author |-> Some("Jane Austen"),
      publisher |-> Some("Penguin"), year |-> Some(1817), pages |-> Some(250),
      genre |-> Some("Fiction"), location |-> Some("A-12")]}

NextFields ==
    \/ Ready /\ DOMAIN users = {} /\ \E user \in UserIns : CreateUser(user)
    \/ Ready /\ DOMAIN books = {} /\ \E book \in BookIns : CreateBook(book)
    \/ Ready /\ checkouts = <<>> /\ \E u \in UserIds, i \in Isbns : CheckoutBook(u, i)
    \/ Ready /\ \E user \in UserIns : UpdateUser(BASE_USER_ID, user)
    \/ Ready /\ \E i \in Isbns, book \in BookIns : UpdateBook(i, book)
    \/ Ready /\ \E user_update \in UserUpdates : PatchUser(BASE_USER_ID, user_update)
    \/ Ready /\ \E i \in Isbns, book_update \in BookUpdates : PatchBook(i, book_update)
    \/ Ready /\ Tick
    \/ Deliver

SpecFields == Init /\ [][NextFields]_vars

\* C10: PATCH leaves every field the request omits, and the identifier,
\* is_available, fine_balance and member_since, as they were, and sets the
\* fields the request has; PUT sets every mutable field to the request's
\* value, None included
C10_PatchKeepsPutReplaces ==
    [][/\ (Served("patch_user") /\ resp'.userId \in DOMAIN users)
          => LET b == resp'.body
                 old == users[resp'.userId]
             IN /\ DOMAIN users' = DOMAIN users
                /\ UNCHANGED <<books, checkouts>>
                /\ LET new == users'[resp'.userId]
                   IN /\ new.fine_balance = old.fine_balance
                      /\ new.member_since = old.member_since
                      /\ new.name = (IF b.name = None \/ resp'.status # 200
                                     THEN old.name ELSE b.name[1])
                      /\ new.email = (IF b.email = None \/ resp'.status # 200
                                      THEN old.email ELSE b.email[1])
                      /\ new.address = (IF b.address = None \/ resp'.status # 200
                                        THEN old.address ELSE b.address)
                      /\ new.phone_number =
                             (IF b.phoneNumber = None \/ resp'.status # 200
                              THEN old.phone_number ELSE b.phoneNumber)
       /\ (Served("patch_book") /\ resp'.isbn \in DOMAIN books)
          => LET b == resp'.body
                 old == books[resp'.isbn]
             IN /\ DOMAIN books' = DOMAIN books
                /\ UNCHANGED <<users, checkouts>>
                /\ resp'.status = 200
                /\ LET new == books'[resp'.isbn]
                   IN /\ new.is_available = old.is_available
                      /\ new.title = (IF b.title = None THEN old.title ELSE b.title[1])
                      /\ new.author = (IF b.author = None THEN old.author ELSE b.author[1])
                      /\ new.publisher =
                             (IF b.publisher = None THEN old.publisher ELSE b.publisher)
                      /\ new.year = (IF b.year = None THEN old.year ELSE b.year)
                      /\ new.pages = (IF b.pages = None THEN old.pages ELSE b.pages)
                      /\ new.genre = (IF b.genre = None THEN old.genre ELSE b.genre)
                      /\ new.location =
                             (IF b.location = None THEN old.location ELSE b.location)
       /\ (Served("update_user") /\ resp'.status = 200)
          => LET b == resp'.body
                 new == users'[resp'.userId]
             IN /\ new.name = b.name /\ new.email = b.email
                /\ new.address = b.address /\ new.phone_number = b.phoneNumber
       /\ (Served("update_book") /\ resp'.status = 200)
          => LET b == resp'.body
                 new == books'[b.isbn]
             IN /\ new.title = b.title /\ new.author = b.author
                /\ new.publisher = b.publisher /\ new.year = b.year
                /\ new.pages = b.pages /\ new.genre = b.genre
                /\ new.location = b.location]_vars

\* A PATCH of a checked-out book that has a publisher set the location alone
C10_Witness ==
    /\ resp.op = "patch_book" /\ resp.status = 200
    /\ resp.body.publisher = None /\ resp.body.title = None
    /\ resp.body.location # None
    /\ books[resp.isbn].publisher # None
    /\ books[resp.isbn].title = "Emma"
    /\ ~books[resp.isbn].is_available

----------------------------------------------------------------------------
(* POST /checkout served by two workers at once.  Each request has its own  *)
(* session; the store's default isolation lets every query read what is     *)
(* committed at that moment, and session.commit() flushes the UPDATE of the *)
(* book and the INSERT of the checkout and commits them together.           *)

Done(status, detail, userId, isbn, checkout_id) ==
    [pc |-> "done", status |-> status, detail |-> detail,
     userId |-> userId, isbn |-> isbn, checkout_id |-> checkout_id]

\* session.query(User).filter(User.user_id == checkout.userId).first()
CheckoutQueryUser(w, userId, isbn) ==
    /\ sess[w].pc = "idle"
    /\ sess' = [sess EXCEPT ![w] =
                   IF userId \notin DOMAIN users
                   THEN Done(404, "User not found", userId, isbn, 0)
                   ELSE [pc |-> "user_found", userId |-> userId, isbn |-> isbn]]
    /\ UNCHANGED <<users, books, checkouts, now, resp>>

\* session.query(Book).filter(Book.isbn == checkout.isbn).first(), the check
\* of is_available, and the due date taken from datetime.now()
CheckoutQueryBook(w) ==
    /\ sess[w].pc = "user_found"
    /\ LET userId == sess[w].userId
           isbn == sess[w].isbn
       IN sess' = [sess EXCEPT ![w] =
                      IF isbn \notin DOMAIN books
                      THEN Done(404, "Book not found", userId, isbn, 0)
                      ELSE IF NotAvailable(books[isbn])
                      THEN Done(400, "Book is not available", userId, isbn, 0)
                      ELSE [pc |-> "book_found", userId |-> userId, isbn |-> isbn,
                            due_date |-> DueDate(now)]]
    /\ UNCHANGED <<users, books, checkouts, now, resp>>

\* book.is_available = False; session.add(new_checkout); session.commit()
CheckoutCommit(w) ==
    /\ sess[w].pc = "book_found"
    /\ UNCHANGED <<users, now, resp>>
    /\ LET userId == sess[w].userId
           isbn == sess[w].isbn
       IN IF isbn \notin DOMAIN books
          THEN /\ sess' = [sess EXCEPT ![w] = Done(500, "StaleDataError", userId, isbn, 0)]
               /\ UNCHANGED <<books, checkouts>>
          ELSE IF userId \notin DOMAIN users
          THEN /\ sess' = [sess EXCEPT ![w] = Done(500, "IntegrityError", userId, isbn, 0)]
               /\ UNCHANGED <<books, checkouts>>
          ELSE /\ Len(checkouts) < MaxCheckouts
               /\ checkouts' = Append(checkouts,
                                      [NewCheckout(userId, isbn, now)
                                          EXCEPT !.due_date = sess[w].due_date])
               /\ books' = MarkUnavailable(books, isbn)
               /\ sess' = [sess EXCEPT ![w] =
                              Done(200, "Book checked out", userId, isbn,
                                   Len(checkouts) + 1)]

\* The worker sends its response and is free for the next request
CheckoutRespond(w) ==
    /\ sess[w].pc = "done"
    /\ sess' = [sess EXCEPT ![w] = Idle]
    /\ UNCHANGED <<users, books, checkouts, now, resp>>

\* The one book the concurrent requests are about
ConcIsbns == {111}

NextConc ==
    \/ Ready /\ \E user \in UserInsCore : CreateUser(user)
    \/ Ready /\ \E book \in BookInsCore : book.isbn \in ConcIsbns /\ CreateBook(book)
    \/ Ready /\ \E u \in UserIds, i \in ConcIsbns : ReturnBook(i, u)
    \/ Ready /\ \E u \in UserIds : DeleteUser(u)
    \/ Ready /\ \E i \in ConcIsbns : DeleteBook(i)
    \/ Deliver
    \/ \E w \in Workers, u \in UserIds, i \in ConcIsbns : CheckoutQueryUser(w, u, i)
    \/ \E w \in Workers : CheckoutQueryBook(w)
    \/ \E w \in Workers : CheckoutCommit(w)
    \/ \E w \in Workers : CheckoutRespond(w)

SpecConc == Init /\ [][NextConc]_vars

\* C2: two checkout requests for the same available book that run at the
\* same time do not both succeed, and the book never has more than one open
\* checkout row
C2_NoDoubleCheckout ==
    /\ \A i \in DOMAIN books : Cardinality(OpenCheckoutsOfBook(i)) <= 1
    /\ \A w1, w2 \in Workers :
          (/\ w1 # w2
           /\ sess[w1].pc = "done" /\ sess[w1].status = 200
           /\ sess[w2].pc = "done" /\ sess[w2].status = 200
           /\ sess[w1].isbn = sess[w2].isbn)
          => \/ checkouts[sess[w1].checkout_id].return_date # NULL
             \/ checkouts[sess[w2].checkout_id].return_date # NULL

----------------------------------------------------------------------------
(* Further properties of the requests served one at a time *)

\* C12: a request answered with an error (404, 400 or 500) leaves the stored
\* users, books and checkouts exactly as they were before it
C12_ErrorLeavesStoreUnchanged ==
    [][(Ready /\ resp' # NoResponse /\ resp'.status # 200)
       => UNCHANGED <<users, books, checkouts>>]_vars

\* A late return has failed in the middle of the handler, after it had
\* written the return date and the availability flag: the checkout is still
\* open and the book still checked out
C12_Witness ==
    /\ resp.op = "return" /\ resp.status = 500 /\ resp.detail = "TypeError"
    /\ resp.isbn \in DOMAIN books /\ ~books[resp.isbn].is_available
    /\ \E c \in DOMAIN checkouts :
          /\ checkouts[c].isbn = resp.isbn /\ checkouts[c].user_id = resp.userId
          /\ checkouts[c].return_date = NULL /\ now > checkouts[c].due_date

\* C13: the fine balance of a user changes only in a step that serves a
\* return request of that user, it never decreases, and it is never negative
C13_FineBalanceFrame ==
    /\ [](\A u \in DOMAIN users : users[u].fine_balance >= 0)
    /\ [][\A u \in DOMAIN users \cap DOMAIN users' :
            /\ users'[u].fine_balance >= users[u].fine_balance
            /\ users'[u].fine_balance # users[u].fine_balance
               => Served("return") /\ resp'.userId = u]_vars

\* A PUT has replaced the fields of a user who has a book checked out, after
\* another user has returned a book
C13_Witness ==
    /\ resp.op = "update_user" /\ resp.status = 200
    /\ resp.userId \in DOMAIN users
    /\ OpenCheckoutsOfUser(resp.userId) # {}
    /\ \E c \in DOMAIN checkouts :
          checkouts[c].user_id # resp.userId /\ checkouts[c].return_date # NULL

\* C14: no (user, book) pair has two checkout rows with a NULL return_date
C14_OneOpenCheckoutPerPair ==
    \A c1, c2 \in DOMAIN checkouts :
        (/\ checkouts[c1].user_id = checkouts[c2].user_id
         /\ checkouts[c1].isbn = checkouts[c2].isbn
         /\ checkouts[c1].return_date = NULL
         /\ checkouts[c2].return_date = NULL)
        => c1 = c2

\* C16: a successful create_user gives the new user the identifier 100000
\* when there is no user and the largest identifier + 1 otherwise, which no
\* existing user has, and adds exactly that one user, leaving the others as
\* they were
C16_CreateUserIdentifier ==
    [][(Served("create_user") /\ resp'.status = 200)
       => /\ resp'.userId = (IF DOMAIN users = {} THEN 100000
                             ELSE Max(DOMAIN users) + 1)
          /\ resp'.userId \notin DOMAIN users
          /\ DOMAIN users' = DOMAIN users \cup {resp'.userId}
          /\ Cardinality(DOMAIN users') = Cardinality(DOMAIN users) + 1
          /\ \A u \in DOMAIN users : users'[u] = users[u]]_vars

\* A second user has been created and has the identifier after the first
C16_Witness ==
    /\ resp.op = "create_user" /\ resp.status = 200
    /\ resp.userId = 100001
    /\ DOMAIN users = {100000, 100001}
    /\ users[100000].email # users[100001].email

\* C18: a checkout row that has a return timestamp is never changed or
\* removed by a later request, and a successful checkout adds a new open row
\* at the end of the table, also when a closed row of the same user and
\* book exists
C18_HistoryRetained ==
    [][/\ Len(checkouts') >= Len(checkouts)
       /\ \A c \in DOMAIN checkouts :
             checkouts[c].return_date # NULL => checkouts'[c] = checkouts[c]
       /\ (Served("checkout") /\ resp'.status = 200)
          => /\ Len(checkouts') = Len(checkouts) + 1
             /\ \A c \in DOMAIN checkouts : checkouts'[c] = checkouts[c]
             /\ checkouts'[Len(checkouts')].user_id = resp'.userId
             /\ checkouts'[Len(checkouts')].isbn = resp'.isbn
             /\ checkouts'[Len(checkouts')].return_date = NULL]_vars

\* The same user has checked out and returned the same book twice: both rows
\* are there, each with its own return timestamp
C18_Witness ==
    /\ resp.op = "return" /\ resp.status = 200
    /\ Len(checkouts) = 2
    /\ checkouts[1].user_id = checkouts[2].user_id
    /\ checkouts[1].isbn = checkouts[2].isbn
    /\ checkouts[1].return_date # NULL /\ checkouts[2].return_date # NULL
    /\ checkouts[1].return_date < checkouts[2].checkout_date
    /\ checkouts[2].return_date = now

\* C19: each book has at most one open checkout over all users, no ISBN is
\* in the checkedOutBooks list of two users, and every ISBN in such a list
\* is a book whose is_available is false
C19_CheckedOutBooksExclusive ==
    /\ \A c1, c2 \in DOMAIN checkouts :
          (/\ checkouts[c1].isbn = checkouts[c2].isbn
           /\ checkouts[c1].return_date = NULL
           /\ checkouts[c2].return_date = NULL)
          => c1 = c2
    /\ \A u1, u2 \in DOMAIN users :
          u1 # u2 => CheckedOutBooks(u1) \cap CheckedOutBooks(u2) = {}
    /\ \A u \in DOMAIN users : \A i \in CheckedOutBooks(u) :
          i \in DOMAIN books /\ ~books[i].is_available

\* A book one user has returned is now checked out by another user: it is
\* in the list of the second user only
C19_Witness ==
    /\ resp.op = "checkout" /\ resp.status = 200
    /\ \E u1, u2 \in DOMAIN users :
          /\ u1 # u2
          /\ resp.isbn \in CheckedOutBooks(u2)
          /\ resp.isbn \notin CheckedOutBooks(u1)
          /\ \E c \in DOMAIN checkouts :
                /\ checkouts[c].user_id = u1 /\ checkouts[c].isbn = resp.isbn
                /\ checkouts[c].return_date # NULL

\* C20: every checkout row with a NULL return_date references a user and a
\* book that exist
C20_OpenCheckoutsReferenceExisting ==
    \A c \in DOMAIN checkouts :
        checkouts[c].return_date = NULL
        => /\ checkouts[c].user_id \in DOMAIN users
           /\ checkouts[c].isbn \in DOMAIN books

\* A PUT that gives a checked-out book another ISBN has been refused: the
\* book is still there under the ISBN its open checkout references
C20_Witness ==
    /\ resp.op = "update_book" /\ resp.status # 200
    /\ resp.body.isbn # resp.isbn
    /\ resp.body.isbn \notin DOMAIN books
    /\ resp.isbn \in DOMAIN books
    /\ \E c \in DOMAIN checkouts :
          /\ checkouts[c].isbn = resp.isbn /\ checkouts[c].return_date = NULL
          /\ checkouts[c].user_id \in DOMAIN users

----------------------------------------------------------------------------
(* POST /return/{isbn} run by two workers at the same time, one statement
   group per step. Each worker has its own session and transaction; the
   store runs them READ COMMITTED: a query sees what is committed, an UPDATE
   waits for the transaction that has written the same row. *)

\* Another worker's transaction has written checkout row c and not ended
RowLocked(w, c) ==
    \E v \in Workers \ {w} : sess[v].pc = "flushed" /\ sess[v].checkout_id = c

\* session.query(Checkout).filter(isbn, user_id, return_date IS NULL).first()
\* and checkout.return_date = datetime.now()
ReturnQuery(w, isbn, user_id) ==
    /\ sess[w] = Idle
    /\ UNCHANGED <<users, books, checkouts, now, resp>>
    /\ IF ActiveCheckoutIds(isbn, user_id) = {}
       THEN sess' = [sess EXCEPT ![w] =
                        Done(404, "No active checkout found for this book and user",
                             user_id, isbn, 0)]
       ELSE \E c \in ActiveCheckoutIds(isbn, user_id) :
               sess' = [sess EXCEPT ![w] =
                           [pc |-> "checkout_found", userId |-> user_id, isbn |-> isbn,
                            checkout_id |-> c, return_date |-> now]]

\* session.query(Book): the autoflush sends UPDATE checkouts SET return_date,
\* then the book is read and marked, the late test is made and the fee added
ReturnFlush(w) ==
    /\ sess[w].pc = "checkout_found"
    /\ ~RowLocked(w, sess[w].checkout_id)
    /\ UNCHANGED <<users, books, checkouts, now, resp>>
    /\ LET user_id == sess[w].userId
           isbn == sess[w].isbn
           c == sess[w].checkout_id
           late == IsLate(sess[w].return_date, checkouts[c].due_date)
           flushed == [pc |-> "flushed", userId |-> user_id, isbn |-> isbn,
                       checkout_id |-> c, return_date |-> sess[w].return_date,
                       fine_balance |-> None]
       IN sess' = [sess EXCEPT ![w] =
                      IF isbn \notin DOMAIN books \/ (late /\ user_id \notin DOMAIN users)
                      THEN Done(500, "AttributeError", user_id, isbn, c)
                      ELSE IF late
                      THEN LET balance == Add(Decimal(users[user_id].fine_balance),
                                              LateFee(sess[w].return_date,
                                                      checkouts[c].due_date))
                           IN IF balance.type # "Decimal"
                              THEN Done(500, "TypeError", user_id, isbn, c)
                              ELSE [flushed EXCEPT !.fine_balance = Some(balance.cents)]
                      ELSE flushed]

\* session.commit()
ReturnCommit(w) ==
    /\ sess[w].pc = "flushed"
    /\ UNCHANGED <<now, resp>>
    /\ LET user_id == sess[w].userId
           isbn == sess[w].isbn
           c == sess[w].checkout_id
       IN IF isbn \notin DOMAIN books
             \/ (sess[w].fine_balance # None /\ user_id \notin DOMAIN users)
          THEN /\ sess' = [sess EXCEPT ![w] = Done(500, "StaleDataError", user_id, isbn, c)]
               /\ UNCHANGED <<users, books, checkouts>>
          ELSE /\ checkouts' = MarkReturned(checkouts, c, sess[w].return_date)
               /\ books' = MarkAvailable(books, isbn)
               /\ users' = IF sess[w].fine_balance = None THEN users
                           ELSE [users EXCEPT ![user_id].fine_balance =
                                                  sess[w].fine_balance[1]]
               /\ sess' = [sess EXCEPT ![w] =
                              Done(200, IF sess[w].fine_balance = None
                                        THEN "Book returned successfully"
                                        ELSE "Book returned. Late fee applied.",
                                   user_id, isbn, c)]

\* The worker sends its response and is free for the next request
ReturnRespond(w) ==
    /\ sess[w].pc = "done"
    /\ sess' = [sess EXCEPT ![w] = Idle]
    /\ UNCHANGED <<users, books, checkouts, now, resp>>

NextReturn ==
    \/ Ready /\ \E user \in UserInsCore : CreateUser(user)
    \/ Ready /\ \E book \in BookInsCore : book.isbn \in ConcIsbns /\ CreateBook(book)
    \/ Ready /\ \E u \in UserIds, i \in ConcIsbns : CheckoutBook(u, i)
    \/ Ready /\ Tick
    \/ Deliver
    \/ \E w \in Workers, u \in UserIds, i \in ConcIsbns : ReturnQuery(w, i, u)
    \/ \E w \in Workers : ReturnFlush(w)
    \/ \E w \in Workers : ReturnCommit(w)
    \/ \E w \in Workers : ReturnRespond(w)

SpecReturn == Init /\ [][NextReturn]_vars

\* C15: two return requests for the same open checkout that run at the same
\* time take effect once: the return timestamp of a checkout row, once
\* written, is not written again, and the fine balance of a user changes only
\* in a step that closes an open checkout of that user
C15_ReturnTakesEffectOnce ==
    [][/\ \A c \in DOMAIN checkouts :
             checkouts[c].return_date # NULL
             => checkouts'[c].return_date = checkouts[c].return_date
       /\ \A u \in DOMAIN users \cap DOMAIN users' :
             users'[u].fine_balance # users[u].fine_balance
             => \E c \in DOMAIN checkouts :
                   /\ checkouts[c].user_id = u
                   /\ checkouts[c].return_date = NULL
                   /\ checkouts'[c].return_date # NULL]_vars

----------------------------------------------------------------------------
(* Checkouts at different times of the day *)

\* Times of day datetime.now() takes after the start: within the same second,
\* the last second of the day with and without a fraction, and midnight and
\* noon of the next day
TimesOfDay ==
    {Instant(0, 10 * 3600, 1),
     Instant(0, EndOfDaySecond, 0),
     Instant(0, EndOfDaySecond, TicksPerSecond - 1),
     Instant(1, 0, 0),
     Instant(1, 12 * 3600, 1)}

\* Time passes
TickOfDay ==
    /\ \E t \in TimesOfDay : t > now /\ now' = t
    /\ UNCHANGED <<users, books, checkouts, resp, sess>>

NextClock ==
    \/ Ready /\ \E user \in UserInsCore : CreateUser(user)
    \/ Ready /\ \E book \in BookInsCore : CreateBook(book)
    \/ Ready /\ \E u \in UserIds, i \in Isbns : CheckoutBook(u, i)
    \/ Ready /\ TickOfDay
    \/ Deliver

SpecClock == Init /\ [][NextClock]_vars

\* C17: the due timestamp of a successful checkout made at time t, as
\* answered and as stored, is on the calendar day 30 days after the day of
\* t, at 23:59:59 of that day, and due - t is at least 30 and less than 31
\* days
C17_DueDateEndOfDay ==
    [][(Served("checkout") /\ resp'.status = 200)
       => LET due == resp'.body.dueDate
          IN /\ checkouts'[Len(checkouts')].due_date = due
             /\ due \div TicksPerDay = (now \div TicksPerDay) + 30
             /\ (due % TicksPerDay) \div TicksPerSecond = 23 * 3600 + 59 * 60 + 59
             /\ due - now >= 30 * TicksPerDay
             /\ due - now < 31 * TicksPerDay]_vars

\* A checkout made in the last second of a day, a fraction of a second in:
\* its due time is exactly 30 days later
C17_Witness ==
    /\ resp.op = "checkout" /\ resp.status = 200
    /\ now = Instant(0, EndOfDaySecond, TicksPerSecond - 1)
    /\ resp.body.dueDate - now = 30 * TicksPerDay
    /\ \E c \in DOMAIN checkouts :
          checkouts[c].checkout_date = now /\ checkouts[c].due_date = resp.body.dueDate

----------------------------------------------------------------------------
(* Email addresses of users: POST, PUT and PATCH /users with empty strings *)

\* "email: str" accepts every string, the empty one included
EmailsWithEmpty == Emails \cup {""}

UserInsEmails ==
    {[name |-> "Ada", email |-> e, address |-> None, phoneNumber |-> None] :
        e \in EmailsWithEmpty}

UserUpdatesEmails ==
    {[name |-> None, email |-> e, address |-> None, phoneNumber |-> None] :
        e \in {None} \cup {Some(x) : x \in EmailsWithEmpty}}

NextEmails ==
    \/ Ready /\ \E user \in UserInsEmails : CreateUser(user)
    \/ Ready /\ \E u \in UserIds, user \in UserInsEmails : UpdateUser(u, user)
    \/ Ready /\ \E u \in UserIds, user_update \in UserUpdatesEmails : PatchUser(u, user_update)
    \/ Ready /\ \E u \in UserIds : DeleteUser(u)
    \/ Deliver

SpecEmails == Init /\ [][NextEmails]_vars

\* C11: no two users ever have the same email, and a create, PUT or PATCH
\* whose new email (any string, the empty one included) already belongs to
\* another user is answered 400 "Email already registered" with the users
\* unchanged
C11_DuplicateEmailConflict ==
    /\ [](\A u1, u2 \in DOMAIN users : users[u1].email = users[u2].email => u1 = u2)
    /\ [][/\ (/\ Served("create_user")
              /\ \E u \in DOMAIN users : users[u].email = resp'.body.email)
             => /\ resp'.status = 400 /\ resp'.detail = "Email already registered"
                /\ UNCHANGED users
          /\ (/\ Served("update_user")
              /\ resp'.userId \in DOMAIN users
              /\ \E u \in DOMAIN users \ {resp'.userId} :
                    users[u].email = resp'.body.email)
             => /\ resp'.status = 400 /\ resp'.detail = "Email already registered"
                /\ UNCHANGED users
          /\ (/\ Served("patch_user")
              /\ resp'.userId \in DOMAIN users
              /\ resp'.body.email # None
              /\ \E u \in DOMAIN users \ {resp'.userId} :
                    users[u].email = resp'.body.email[1])
             => /\ resp'.status = 400 /\ resp'.detail = "Email already registered"
                /\ UNCHANGED users]_vars

----------------------------------------------------------------------------
(* A holder who keeps returning: checkouts and returns as time passes, where
   every response is sent and every holder's return request keeps coming *)

NextHolder ==
    \/ Ready /\ \E user \in UserInsCore : CreateUser(user)
    \/ Ready /\ \E book \in BookInsCore : CreateBook(book)
    \/ Ready /\ \E u \in UserIds, i \in Isbns : CheckoutBook(u, i)
    \/ Ready /\ \E u \in UserIds, i \in Isbns : ReturnBook(i, u)
    \/ Ready /\ Tick
    \/ Deliver

\* Each response is sent, and the return request of each (isbn, user) pair
\* is served again and again
SpecHolder ==
    /\ Init
    /\ [][NextHolder]_vars
    /\ WF_vars(Deliver)
    /\ \A u \in UserIds, i \in Isbns : SF_vars(Ready /\ ReturnBook(i, u))

\* C21: whenever a book has an open checkout by a user who keeps issuing the
\* return request, before or after the due time, the book becomes available
C21_ReturnEventuallySucceeds ==
    \A u \in UserIds, i \in Isbns :
        (\E c \in DOMAIN checkouts :
            /\ checkouts[c].isbn = i /\ checkouts[c].user_id = u
            /\ checkouts[c].return_date = NULL)
        ~> (i \in DOMAIN books /\ books[i].is_available)

====
